---------------------------- MODULE Spec2Model ----------------------------
(***************************************************************************)
(* Model of src/smart_api.py: the OpenAPI-driven request-shape resolver    *)
(* (extract_required_fields, extract_required_headers), the dispatcher     *)
(* (call_api), the missing-field classifier                                *)
(* (extract_missing_fields_from_response), job-id extraction and the       *)
(* login -> list jobs -> update status workflow of main().                 *)
(*                                                                         *)
(* Spec is the workflow; SpecResolve, SpecDispatch, SpecCollect,           *)
(* SpecClassify and SpecJobIds apply one function each to generated        *)
(* inputs.                                                                 *)
(*                                                                         *)
(* Python values are represented as follows.                               *)
(*   - a dict is a sequence of [k, v] records in insertion order;          *)
(*   - an optional key of a JSON object is a sequence of length 0 (key     *)
(*     absent) or 1 (key present);                                         *)
(*   - None, where the value is otherwise a str, is the string NoneStr;    *)
(*   - an uncaught exception is recorded by name in the variable exc and   *)
(*     ends the run (pc = "crashed").                                      *)
(***************************************************************************)
EXTENDS Integers, Sequences, FiniteSets, TLC

VARIABLES
    pc,                 \* position in main() / in the function under test
    exc,                \* name of the uncaught exception, "" when none
    api_spec,           \* the OpenAPI document
    required_fields,    \* main: required_fields (dict name -> type)
    content_type,       \* main: content_type (str or None)
    method,             \* main: method (str or None)
    required_headers,   \* main: required_headers (dict name -> type)
    user_payload,       \* main: user_payload (dict name -> value)
    headers,            \* main: headers (dict name -> value)
    api_response,       \* main: api_response (decoded login response)
    llm_text,           \* text returned by the classification prompt
    missing_fields,     \* main: missing_fields (value returned by classify)
    bearer_token,       \* main: bearer_token (str, NoneStr while unbound)
    calls,              \* log of HTTP calls: request and decoded response
    prompts,            \* log of console prompts (input() calls)
    jobs_data,          \* main: jobs_data
    job_ids,            \* main: job_ids
    selected_job_id,    \* main: selected_job_id
    status_fields,      \* main: status_fields
    status_content_type,\* main: status_content_type
    status_method,      \* main: status_method
    status_payload,     \* main: status_payload
    status_response,    \* main: status_response
    summaries           \* main: the summaries printed (interpreted_*_response)

vars == <<pc, exc, api_spec, required_fields, content_type, method,
          required_headers, user_payload, headers, api_response, llm_text,
          missing_fields, bearer_token, calls, prompts, jobs_data, job_ids,
          selected_job_id, status_fields, status_content_type, status_method,
          status_payload, status_response, summaries>>

---------------------------------------------------------------------------
(* Bounds of the model *)

\* longest path item (number of keys under one path) in a generated document
MaxKeys == 2
\* longest "required" list in a generated schema
MaxRequired == 1
\* longest "detail" list in a generated response body
MaxDetail == 2
\* longest payload handed to call_api on its own
MaxPayload == 2
\* most fields handed to collect_user_inputs on its own
MaxFields == 2
\* longest list of jobs handed to extract_job_ids on its own
MaxJobs == 3

---------------------------------------------------------------------------
(* Python values *)

NoneStr == "<None>"
Nothing == <<>>
Some(x) == <<x>>
IsSome(o) == Len(o) = 1
Val(o) == o[1]

SeqsUpTo(S, n) == UNION {[1..m -> S] : m \in 0..n}

\* dict operations; insertion order is kept, as in Python
DictKeys(d) == [i \in 1..Len(d) |-> d[i].k]
DictHas(d, key) == \E i \in 1..Len(d) : d[i].k = key
DictGet(d, key) == d[CHOOSE i \in 1..Len(d) : d[i].k = key].v
DictPut(d, key, val) ==
    IF DictHas(d, key)
    THEN [i \in 1..Len(d) |-> IF d[i].k = key THEN [k |-> key, v |-> val] ELSE d[i]]
    ELSE Append(d, [k |-> key, v |-> val])

\* str.lower() and str.upper() on the method tokens the model uses
Lower(s) ==
    CASE s = "POST" -> "post"
      [] s = "GET" -> "get"
      [] s = "Put" -> "put"
      [] s = "PATCH" -> "patch"
      [] s = "OPTIONS" -> "options"
      [] OTHER -> s

Upper(s) ==
    CASE s = "post" -> "POST"
      [] s = "get" -> "GET"
      [] s = "put" -> "PUT"
      [] s = "Put" -> "PUT"
      [] s = "patch" -> "PATCH"
      [] s = "delete" -> "DELETE"
      [] s = "options" -> "OPTIONS"
      [] s = "head" -> "HEAD"
      [] OTHER -> s

---------------------------------------------------------------------------
(* extract_required_fields, src/smart_api.py 10-36 *)

HttpMethods == {"get", "post", "put", "delete", "patch", "options", "head"}

FormType == "application/x-www-form-urlencoded"
JsonType == "application/json"

\* http_methods = [m for m in available_methods if m.lower() in [...]]
HttpMethodKeys(pathitem) ==
    SelectSeq(DictKeys(pathitem), LAMBDA m : Lower(m) \in HttpMethods)

\* a mutant of FirstMethod: the last recognized key instead of the first
FirstMethod_last(http_methods) == http_methods[Len(http_methods)]

\* method = http_methods[0]
FirstMethod(http_methods) == http_methods[1]

\* The method resolution of lines 14-20 (shared with extract_required_headers
\* 73-79).  st is "ok", "keyerror" (the except branch) or "nomethod" (the
\* early return of line 19).
ResolveMethod(spec, endpoint, hint) ==
    IF hint # NoneStr THEN [st |-> "ok", method |-> hint]
    ELSE IF ~IsSome(spec.paths) \/ ~DictHas(Val(spec.paths), endpoint)
    THEN [st |-> "keyerror", method |-> NoneStr]
    ELSE LET http_methods == HttpMethodKeys(DictGet(Val(spec.paths), endpoint))
         IN  IF http_methods = <<>>
             THEN [st |-> "nomethod", method |-> NoneStr]
             ELSE [st |-> "ok", method |-> FirstMethod(http_methods)]

\* api_spec["paths"][endpoint][method] can be looked up without KeyError
HasOperation(spec, endpoint, m) ==
    /\ IsSome(spec.paths)
    /\ DictHas(Val(spec.paths), endpoint)
    /\ DictHas(DictGet(Val(spec.paths), endpoint), m)

Operation(spec, endpoint, m) == DictGet(DictGet(Val(spec.paths), endpoint), m)

\* every properties[field]["type"] lookup of line 30 succeeds
AllTyped(required, properties) ==
    \A i \in 1..Len(required) :
        /\ DictHas(properties, required[i])
        /\ IsSome(DictGet(properties, required[i]).type)

\* {field: properties[field]["type"] for field in required_fields}
RECURSIVE FieldDetails(_, _, _)
FieldDetails(required, properties, acc) ==
    IF required = <<>> THEN acc
    ELSE FieldDetails(Tail(required), properties,
             DictPut(acc, Head(required),
                     Val(DictGet(properties, Head(required)).type)))

Resolved(f, ct, m, e) == [fields |-> f, content_type |-> ct, method |-> m, exc |-> e]

\* next(iter(content_types)) on an empty content map: StopIteration, which
\* "except KeyError" does not catch
EmptyContent(m) == Resolved(<<>>, NoneStr, m, "StopIteration")

\* return field_details, content_type, method (line 31)
BodyResult(fields, ct, m) == Resolved(fields, ct, m, "")

\* lines 22-36 for a resolved method m
ResolveBody(spec, endpoint, m) ==
    IF ~HasOperation(spec, endpoint, m) THEN Resolved(<<>>, NoneStr, m, "")
    ELSE LET op == Operation(spec, endpoint, m) IN
    IF ~IsSome(op.requestBody) THEN Resolved(<<>>, NoneStr, m, "")
    ELSE LET rb == Val(op.requestBody) IN
    IF ~IsSome(rb.content) THEN Resolved(<<>>, NoneStr, m, "")
    ELSE LET content_types == Val(rb.content) IN
    IF content_types = <<>> THEN EmptyContent(m)
    ELSE LET ct == content_types[1].k
             media == content_types[1].v IN
    IF ~IsSome(media.schema) THEN Resolved(<<>>, NoneStr, m, "")
    ELSE LET schema == Val(media.schema)
             required == IF IsSome(schema.required) THEN Val(schema.required) ELSE <<>>
             properties == IF IsSome(schema.properties) THEN Val(schema.properties) ELSE <<>>
         IN  IF ~AllTyped(required, properties)
             THEN Resolved(<<>>, NoneStr, m, "")
             ELSE BodyResult(FieldDetails(required, properties, <<>>), ct, m)

extract_required_fields(spec, endpoint, hint) ==
    LET r == ResolveMethod(spec, endpoint, hint) IN
    IF r.st = "ok" THEN ResolveBody(spec, endpoint, r.method)
    ELSE Resolved(<<>>, NoneStr, NoneStr, "")

---------------------------------------------------------------------------
(* OpenAPI documents *)

LoginEndpoint == "/api/login"
JobsEndpoint == "/jobs"

\* an operation without requestBody and without parameters
PlainOp == [requestBody |-> Nothing, parameters |-> <<>>]

TypedProp == [type |-> Some("string")]
UntypedProp == [type |-> Nothing]
Prop(name, p) == [k |-> name, v |-> p]

LoginProperties ==
    <<Prop("username", TypedProp), Prop("password", TypedProp)>>

LoginSchema ==
    [required |-> Some(<<"username", "password">>),
     properties |-> Some(LoginProperties)]

Media(schema) == [schema |-> Some(schema)]
BodyOp(contentMap, params) ==
    [requestBody |-> Some([content |-> Some(contentMap)]), parameters |-> params]

\* generated schemas: any required list up to MaxRequired names, against no
\* properties map, an empty one, one with an untyped property, a complete one
GenFieldNames == {"username", "password"}
GenRequired == {Nothing} \cup {Some(r) : r \in SeqsUpTo(GenFieldNames, MaxRequired)}
GenProperties ==
    {Nothing, Some(<<>>), Some(LoginProperties),
     Some(<<Prop("username", TypedProp), Prop("password", UntypedProp)>>)}
GenSchemas == [required : GenRequired, properties : GenProperties]
GenMedia == {[schema |-> Nothing]} \cup {Media(s) : s \in GenSchemas}
GenContent ==
    {<<>>}
    \cup {<<[k |-> FormType, v |-> m]>> : m \in GenMedia}
    \cup {<<[k |-> JsonType, v |-> m], [k |-> FormType, v |-> Media(LoginSchema)]>> :
            m \in GenMedia}
GenOps ==
    {PlainOp, [requestBody |-> Some([content |-> Nothing]), parameters |-> <<>>]}
    \cup {BodyOp(c, <<>>) : c \in GenContent}

\* keys that can appear under a path: recognized methods in several letter
\* cases and keys that are no methods
GenKeys == {"summary", "post", "GET", "options"}

\* path items: up to MaxKeys distinct keys in any order; one key holds a
\* generated operation and the others a plain one
GenKeySeqs ==
    {ks \in SeqsUpTo(GenKeys, MaxKeys) :
        \A i, j \in 1..Len(ks) : i # j => ks[i] # ks[j]}
GenPathItems ==
    {<<>>} \cup
    UNION {{[i \in 1..Len(ks) |-> [k |-> ks[i], v |-> IF i = pos THEN op ELSE PlainOp]] :
                pos \in 1..Len(ks), op \in GenOps} : ks \in GenKeySeqs}
GenDocs ==
    {[paths |-> Nothing], [paths |-> Some(<<>>)]}
    \cup {[paths |-> Some(<<[k |-> LoginEndpoint, v |-> item]>>)] : item \in GenPathItems}

---------------------------------------------------------------------------
(* Initial values of main's locals *)

NoBody == [detail |-> Nothing, access_token |-> Nothing]
NoValue == [t |-> "none", items |-> <<>>, n |-> 0]
NoJobsData == [t |-> "none", has_jobs |-> FALSE, items |-> <<>>]

Locals ==
    /\ exc = ""
    /\ required_fields = <<>>
    /\ content_type = NoneStr
    /\ method = NoneStr
    /\ required_headers = <<>>
    /\ user_payload = <<>>
    /\ headers = <<>>
    /\ llm_text = NoneStr
    /\ missing_fields = NoValue
    /\ bearer_token = NoneStr
    /\ calls = <<>>
    /\ prompts = <<>>
    /\ jobs_data = NoJobsData
    /\ job_ids = <<>>
    /\ selected_job_id = NoneStr
    /\ status_fields = <<>>
    /\ status_content_type = NoneStr
    /\ status_method = NoneStr
    /\ status_payload = <<>>
    /\ status_response = NoBody
    /\ summaries = <<>>

---------------------------------------------------------------------------
(* SpecResolve: extract_required_fields(api_spec, "/api/login") applied to  *)
(* every generated document                                                *)

\* an uncaught exception ends the run
Crash(e) == pc' = "crashed" /\ exc' = e

InitResolve ==
    /\ pc = "resolve"
    /\ api_spec \in GenDocs
    /\ api_response = NoBody
    /\ Locals

\* required_fields, content_type, method = extract_required_fields(api_spec, endpoint)
ResolveCall ==
    /\ pc = "resolve"
    /\ LET r == extract_required_fields(api_spec, LoginEndpoint, NoneStr) IN
        IF r.exc # ""
        THEN \* the raise leaves the function before the caller assigns
             /\ Crash(r.exc)
             /\ UNCHANGED <<required_fields, content_type, method>>
        ELSE /\ required_fields' = r.fields
             /\ content_type' = r.content_type
             /\ method' = r.method
             /\ exc' = exc
             /\ pc' = "resolved"
    /\ UNCHANGED <<api_spec, required_headers, user_payload, headers,
                   api_response, llm_text, missing_fields, bearer_token, calls,
                   prompts, jobs_data, job_ids, selected_job_id, status_fields,
                   status_content_type, status_method, status_payload,
                   status_response,
                   summaries>>

NextResolve == ResolveCall

SpecResolve == InitResolve /\ [][NextResolve]_vars

---------------------------------------------------------------------------
(* extract_required_headers, src/smart_api.py 69-89 *)

Param(name, where, req, ty) == [name |-> name, in |-> where, required |-> req, type |-> ty]

RECURSIVE HeaderDetails(_, _)
HeaderDetails(params, acc) ==
    IF params = <<>> THEN acc
    ELSE LET p == Head(params) IN
         IF p.in = "header" /\ p.required
         THEN HeaderDetails(Tail(params),
                  DictPut(acc, p.name, IF IsSome(p.type) THEN Val(p.type) ELSE "string"))
         ELSE HeaderDetails(Tail(params), acc)

extract_required_headers(spec, endpoint, hint) ==
    LET r == ResolveMethod(spec, endpoint, hint) IN
    IF r.st # "ok" \/ ~HasOperation(spec, endpoint, r.method) THEN <<>>
    ELSE HeaderDetails(Operation(spec, endpoint, r.method).parameters, <<>>)

---------------------------------------------------------------------------
(* call_api, src/smart_api.py 91-120 *)

BaseUrl == "http://localhost:8000"

\* "&".join([f"{key}={value}" for key, value in payload.items()])
RECURSIVE FormEncode(_)
FormEncode(payload) ==
    IF payload = <<>> THEN ""
    ELSE IF Len(payload) = 1 THEN payload[1].k \o "=" \o payload[1].v
    ELSE payload[1].k \o "=" \o payload[1].v \o "&" \o FormEncode(Tail(payload))

\* lines 97-98: if payload and content_type: headers["Content-Type"] = content_type
CallHeaders(payload, hdrs, ct) ==
    IF payload # <<>> /\ ct \notin {NoneStr, ""}
    THEN DictPut(hdrs, "Content-Type", ct)
    ELSE hdrs

Req(verb, url, kind, data, payload, hdrs) ==
    [verb |-> verb, url |-> url, kind |-> kind, data |-> data,
     payload |-> payload, headers |-> hdrs]

\* The request call_api sends (lines 101-116), or the ValueError of line 118.
\* kind is "params" (query string), "data" (raw body) or "json".
Request(url, payload, hdrs, ct, m) ==
    LET h == CallHeaders(payload, hdrs, ct)
        lm == Lower(m)
    IN  CASE lm = "get" ->
               [exc |-> "", req |-> Req("GET", url, "params", "", payload, h)]
          [] lm = "post" /\ ct = FormType ->
               [exc |-> "", req |-> Req("POST", url, "data", FormEncode(payload), <<>>, h)]
          [] lm \in {"post", "put", "delete", "patch"} /\ ~(lm = "post" /\ ct = FormType) ->
               [exc |-> "", req |-> Req(Upper(lm), url, "json", "", payload, h)]
          [] OTHER ->
               [exc |-> "ValueError", req |-> Req(Upper(lm), url, "none", "", <<>>, h)]

---------------------------------------------------------------------------
(* SpecDispatch: call_api applied to every method, content type and payload *)

DispatchUrl == BaseUrl \o "/items"
DispatchMethods ==
    {"get", "GET", "post", "POST", "put", "Put", "delete", "patch", "PATCH",
     "options", "head"}
DispatchTypes == {FormType, JsonType, "text/plain", NoneStr}
DispatchKeys == {"a", "b", "c"}
DispatchValues == {"1", "2", "x y&z"}

\* dicts of at most MaxPayload entries with distinct keys
DispatchPayloads ==
    {p \in SeqsUpTo([k : DispatchKeys, v : DispatchValues], MaxPayload) :
        \A i, j \in 1..Len(p) : p[i].k = p[j].k => i = j}

InitDispatch ==
    /\ pc = "dispatch"
    /\ api_spec = [paths |-> Nothing]
    /\ api_response = NoBody
    /\ method \in DispatchMethods
    /\ content_type \in DispatchTypes
    /\ user_payload \in DispatchPayloads
    /\ exc = ""
    /\ required_fields = <<>>
    /\ required_headers = <<>>
    /\ headers = <<>>
    /\ llm_text = NoneStr
    /\ missing_fields = NoValue
    /\ bearer_token = NoneStr
    /\ calls = <<>>
    /\ prompts = <<>>
    /\ jobs_data = NoJobsData
    /\ job_ids = <<>>
    /\ selected_job_id = NoneStr
    /\ status_fields = <<>>
    /\ status_content_type = NoneStr
    /\ status_method = NoneStr
    /\ status_payload = <<>>
    /\ status_response = NoBody
    /\ summaries = <<>>

\* call_api(url, user_payload, headers, content_type, method)
DispatchCall ==
    /\ pc = "dispatch"
    /\ LET c == Request(DispatchUrl, user_payload, headers, content_type, method) IN
        /\ exc' = c.exc
        /\ headers' = c.req.headers
        /\ calls' = IF c.exc = ""
                    THEN Append(calls, [req |-> c.req, body |-> NoBody, jobs |-> NoJobsData])
                    ELSE calls
        /\ pc' = IF c.exc = "" THEN "dispatched" ELSE "crashed"
    /\ UNCHANGED <<api_spec, required_fields, content_type, method,
                   required_headers, user_payload, api_response, llm_text,
                   missing_fields, bearer_token, prompts, jobs_data, job_ids,
                   selected_job_id, status_fields, status_content_type,
                   status_method, status_payload, status_response,
                   summaries>>

NextDispatch == DispatchCall

SpecDispatch == InitDispatch /\ [][NextDispatch]_vars

---------------------------------------------------------------------------
(* Response bodies *)

DetailList(items) == [t |-> "list", s |-> "", items |-> items]
DetailStr(s) == [t |-> "str", s |-> s, items |-> <<>>]
Body(detail, token) == [detail |-> detail, access_token |-> token]

Entry(type, loc) == [type |-> type, loc |-> loc]
MissingEntry(name) == Entry(Some("value_error.missing"), Some(<<"body", name>>))
OtherEntry == Entry(Some("type_error.integer"), Some(<<"body", "username">>))
NoTypeEntry == Entry(Nothing, Some(<<"body", "username">>))
NoLocEntry == Entry(Some("missing"), Nothing)
EmptyNameEntry == Entry(Some("missing"), Some(<<"body", "">>))

\* "missing" in s, on the type tags the model uses
ContainsMissing(s) == s \in {"value_error.missing", "missing"}

\* any("missing" in error["type"] for error in detail): "yes", "no", or the
\* exception the generator raises before any entry answered yes
RECURSIVE AnyMissing(_)
AnyMissing(items) ==
    IF items = <<>> THEN "no"
    ELSE IF ~IsSome(Head(items).type) THEN "KeyError"
    ELSE IF ContainsMissing(Val(Head(items).type)) THEN "yes"
    ELSE AnyMissing(Tail(items))

\* the condition of line 207
MissingFieldCheck(body) ==
    IF ~IsSome(body.detail) THEN "no"
    ELSE LET d == Val(body.detail) IN
         IF d.t = "str" THEN (IF d.s = "" THEN "no" ELSE "TypeError")
         ELSE AnyMissing(d.items)

---------------------------------------------------------------------------
(* extract_missing_fields_from_response, src/smart_api.py 131-157 *)

ListValue(items) == [t |-> "list", items |-> items, n |-> 0]
IntValue(n) == [t |-> "int", items |-> <<>>, n |-> n]
Returned(v) == [exc |-> "", value |-> v]
Raised(e) == [exc |-> e, value |-> NoValue]

\* texts the text generator returns for the classification prompt
TextOneName == "[\"username\"]"
TextTwoNames == "[\"password\", \"username\"]"
TextEmptyList == "[]"
TextProse == "Sure! The missing fields are: username"
TextBareName == "username"
TextNumber == "42"
TextNone == "None"
TextDivision == "1/0"
LlmTexts == {TextOneName, TextTwoNames, TextEmptyList, TextProse, TextBareName,
             TextNumber, TextNone, TextDivision}

\* eval(response["response"]) on those texts
Eval(text) ==
    CASE text = TextOneName -> Returned(ListValue(<<"username">>))
      [] text = TextTwoNames -> Returned(ListValue(<<"password", "username">>))
      [] text = TextEmptyList -> Returned(ListValue(<<>>))
      [] text = TextProse -> Raised("SyntaxError")
      [] text = TextBareName -> Raised("NameError")
      [] text = TextNumber -> Returned(IntValue(42))
      [] text = TextNone -> Returned(NoValue)
      [] text = TextDivision -> Raised("ZeroDivisionError")

\* the loop of lines 152-156 over a detail list
RECURSIVE WalkDetail(_, _)
WalkDetail(items, acc) ==
    IF items = <<>> THEN Returned(ListValue(acc))
    ELSE LET error == Head(items)
             type == IF IsSome(error.type) THEN Val(error.type) ELSE ""
             loc == IF IsSome(error.loc) THEN Val(error.loc) ELSE <<>>
         IN  IF ~ContainsMissing(type) THEN WalkDetail(Tail(items), acc)
             ELSE IF loc = <<>> THEN Raised("IndexError")
             ELSE IF loc[Len(loc)] = "" THEN WalkDetail(Tail(items), acc)
             ELSE WalkDetail(Tail(items), Append(acc, loc[Len(loc)]))

\* lines 151-157: the manual extraction of the except branch
ManualExtraction(body) ==
    IF ~IsSome(body.detail) THEN Returned(ListValue(<<>>))
    ELSE LET d == Val(body.detail) IN
         IF d.t = "str"
         THEN (IF d.s = "" THEN Returned(ListValue(<<>>)) ELSE Raised("AttributeError"))
         ELSE WalkDetail(d.items, <<>>)

\* a mutant of extract_missing_fields_from_response: the structured walk first
extract_missing_fields_walk_first(body, text) == ManualExtraction(body)

extract_missing_fields_from_response(body, text) ==
    LET ev == Eval(text) IN
    IF ev.exc = "" THEN ev
    ELSE IF ev.exc \in {"SyntaxError", "NameError"} THEN ManualExtraction(body)
    ELSE ev

---------------------------------------------------------------------------
(* extract_job_ids, src/smart_api.py 159-176 *)

\* jobs_data: t is "list" (a bare list, in items), "dict" (has_jobs says
\* whether the key "jobs" is present, its list in items), "dict_other" (an
\* object whose jobs value is no list) or "none" (any other JSON value)
JobsValue(t, has_jobs, items) == [t |-> t, has_jobs |-> has_jobs, items |-> items]

\* list elements: t is the kind of the element, has_id the value of
\* "id" in job where that test does not raise, id the value of job["id"]
JobElem(t, has_id, id) == [t |-> t, has_id |-> has_id, id |-> id]
\* a job object with or without id
Job(id) == JobElem("dict", TRUE, Some(id))
JobNoId == JobElem("dict", FALSE, Nothing)
\* a number, boolean or null: "id" in job raises TypeError
NotAJob == JobElem("int", FALSE, Nothing)
\* a string without the substring "id" ("queued"): "id" in job is False
JobName == JobElem("str", FALSE, Nothing)
\* a string with the substring "id" ("video"): "id" in job is True and
\* job["id"] raises TypeError
JobTitle == JobElem("str", TRUE, Nothing)
\* a list without the element "id" ([1]), and one with it (["id"]): as for
\* the strings
JobPlainList == JobElem("list", FALSE, Nothing)
JobIdList == JobElem("list", TRUE, Nothing)

\* a mutant of CollectIds: an element that is no job is skipped and the loop
\* goes on
RECURSIVE CollectIds_skip(_, _)
CollectIds_skip(items, acc) ==
    IF items = <<>> THEN acc
    ELSE IF IsSome(Head(items).id)
         THEN CollectIds_skip(Tail(items), Append(acc, Val(Head(items).id)))
         ELSE CollectIds_skip(Tail(items), acc)

\* the loops of lines 165-167 and 170-172.  "id" in job raises TypeError on
\* a number, and job["id"] raises TypeError on a string or list that passed
\* the test; line 173 catches it and the ids collected so far are returned
RECURSIVE CollectIds(_, _)
CollectIds(items, acc) ==
    IF items = <<>> THEN acc
    ELSE LET job == Head(items) IN
         IF job.t = "int" THEN acc
         ELSE IF ~job.has_id THEN CollectIds(Tail(items), acc)
         ELSE IF job.t = "dict"
              THEN CollectIds(Tail(items), Append(acc, Val(job.id)))
              ELSE acc

extract_job_ids(jobs_response) ==
    IF jobs_response.t = "list" THEN CollectIds(jobs_response.items, <<>>)
    ELSE IF jobs_response.t = "dict" /\ jobs_response.has_jobs
    THEN CollectIds(jobs_response.items, <<>>)
    ELSE <<>>

---------------------------------------------------------------------------
(* SpecJobIds: extract_job_ids applied to every generated jobs response *)

GenJobs == {Job(1), Job(2), JobNoId, NotAJob, JobName, JobTitle, JobPlainList, JobIdList}
GenJobsData ==
    {JobsValue("none", FALSE, <<>>), JobsValue("dict", FALSE, <<>>),
     JobsValue("dict_other", TRUE, <<>>)}
    \cup {JobsValue("list", FALSE, items) : items \in SeqsUpTo(GenJobs, MaxJobs)}
    \cup {JobsValue("dict", TRUE, items) : items \in SeqsUpTo(GenJobs, MaxJobs)}

InitJobIds ==
    /\ pc = "extract"
    /\ api_spec = [paths |-> Nothing]
    /\ api_response = NoBody
    /\ jobs_data \in GenJobsData
    /\ exc = ""
    /\ required_fields = <<>>
    /\ content_type = NoneStr
    /\ method = NoneStr
    /\ required_headers = <<>>
    /\ user_payload = <<>>
    /\ headers = <<>>
    /\ llm_text = NoneStr
    /\ missing_fields = NoValue
    /\ bearer_token = NoneStr
    /\ calls = <<>>
    /\ prompts = <<>>
    /\ job_ids = <<>>
    /\ selected_job_id = NoneStr
    /\ status_fields = <<>>
    /\ status_content_type = NoneStr
    /\ status_method = NoneStr
    /\ status_payload = <<>>
    /\ status_response = NoBody
    /\ summaries = <<>>

\* job_ids = extract_job_ids(jobs_data)
ExtractCall ==
    /\ pc = "extract"
    /\ job_ids' = extract_job_ids(jobs_data)
    /\ pc' = "extracted"
    /\ UNCHANGED <<exc, api_spec, required_fields, content_type, method,
                   required_headers, user_payload, headers, api_response,
                   llm_text, missing_fields, bearer_token, calls, prompts,
                   jobs_data, selected_job_id, status_fields,
                   status_content_type, status_method, status_payload,
                   status_response,
                   summaries>>

NextJobIds == ExtractCall

SpecJobIds == InitJobIds /\ [][NextJobIds]_vars

---------------------------------------------------------------------------
(* SpecClassify: extract_missing_fields_from_response applied to every      *)
(* generated response body and every text of the text generator            *)

GenEntries ==
    {MissingEntry("username"), MissingEntry("password"), OtherEntry,
     NoTypeEntry, NoLocEntry, EmptyNameEntry}
GenDetails ==
    {Nothing, Some(DetailStr("")), Some(DetailStr("Incorrect username or password"))}
    \cup {Some(DetailList(items)) : items \in SeqsUpTo(GenEntries, MaxDetail)}
GenBodies == {Body(d, Nothing) : d \in GenDetails}

InitClassify ==
    /\ pc = "classify"
    /\ api_spec = [paths |-> Nothing]
    /\ api_response \in GenBodies
    /\ Locals

\* missing_fields = extract_missing_fields_from_response(api_response)
ClassifyCall ==
    /\ pc = "classify"
    /\ \E text \in LlmTexts :
        LET r == extract_missing_fields_from_response(api_response, text) IN
        /\ llm_text' = text
        /\ missing_fields' = r.value
        /\ exc' = r.exc
        /\ pc' = IF r.exc = "" THEN "classified" ELSE "crashed"
    /\ UNCHANGED <<api_spec, required_fields, content_type, method,
                   required_headers, user_payload, headers, api_response,
                   bearer_token, calls, prompts, jobs_data, job_ids,
                   selected_job_id, status_fields, status_content_type,
                   status_method, status_payload, status_response,
                   summaries>>

NextClassify == ClassifyCall

SpecClassify == InitClassify /\ [][NextClassify]_vars

---------------------------------------------------------------------------
(* Spec: the workflow of main(), src/smart_api.py 178-312.  Every external  *)
(* call returns: an HTTP call gives a decoded body, the text generator a    *)
(* text, the console a line.                                                *)

\* OpenAPI documents fetched by get_openapi_spec
ApiKeyHeader == Param("X-API-Key", "header", TRUE, Nothing)
StatusSchema ==
    [required |-> Some(<<"status">>),
     properties |-> Some(<<Prop("status", TypedProp)>>)]
UserSchema ==
    [required |-> Some(<<"username">>),
     properties |-> Some(<<Prop("username", TypedProp)>>)]
Path(path, item) == [k |-> path, v |-> item]
Op(key, op) == [k |-> key, v |-> op]

\* form-encoded login with two fields, GET /jobs, a status path for job 7
\* whose content map is empty, no status path for other jobs
DocForm ==
    [paths |-> Some(<<
        Path(LoginEndpoint, <<Op("post", BodyOp(<<[k |-> FormType, v |-> Media(LoginSchema)]>>, <<>>))>>),
        Path(JobsEndpoint, <<Op("get", PlainOp)>>),
        Path("/jobs/7/status", <<Op("put", BodyOp(<<>>, <<>>))>>)>>)]
\* JSON login behind a summary key with a required header, no /jobs path,
\* a literal status path for job 1
DocJson ==
    [paths |-> Some(<<
        Path(LoginEndpoint, <<Op("summary", PlainOp),
                              Op("POST", BodyOp(<<[k |-> JsonType, v |-> Media(UserSchema)]>>,
                                                <<ApiKeyHeader>>))>>),
        Path("/jobs/1/status", <<Op("PATCH", BodyOp(<<[k |-> JsonType, v |-> Media(StatusSchema)]>>, <<>>))>>)>>)]
\* login by GET without a body, POST /jobs
DocGet ==
    [paths |-> Some(<<
        Path(LoginEndpoint, <<Op("GET", PlainOp)>>),
        Path(JobsEndpoint, <<Op("post", PlainOp)>>)>>)]
\* login by GET without a body, /jobs with an empty content map
DocJobsEmptyContent ==
    [paths |-> Some(<<
        Path(LoginEndpoint, <<Op("get", PlainOp)>>),
        Path(JobsEndpoint, <<Op("get", BodyOp(<<>>, <<>>))>>)>>)]
\* no login path
DocNoLogin == [paths |-> Some(<<Path(JobsEndpoint, <<Op("get", PlainOp)>>)>>)]
\* login declares options before post
DocOptions ==
    [paths |-> Some(<<
        Path(LoginEndpoint, <<Op("options", PlainOp),
                              Op("post", BodyOp(<<[k |-> JsonType, v |-> Media(UserSchema)]>>, <<>>))>>)>>)]
\* login declares only OPTIONS, with a JSON request body
DocOptionsBody ==
    [paths |-> Some(<<
        Path(LoginEndpoint, <<Op("OPTIONS", BodyOp(<<[k |-> JsonType, v |-> Media(UserSchema)]>>, <<>>))>>)>>)]
\* the login path declares no HTTP operation
DocNoOperation ==
    [paths |-> Some(<<Path(LoginEndpoint, <<Op("summary", PlainOp)>>),
                      Path(JobsEndpoint, <<Op("get", PlainOp)>>)>>)]
\* login with an empty content map
DocEmptyContent ==
    [paths |-> Some(<<Path(LoginEndpoint, <<Op("post", BodyOp(<<>>, <<>>))>>)>>)]

WorkflowDocs ==
    {DocForm, DocJson, DocGet, DocJobsEmptyContent, DocNoLogin, DocOptions,
     DocOptionsBody, DocNoOperation, DocEmptyContent}

\* what the user types at a prompt
InputValues == {"a", "b"}
JobIdInputs == {"1", "7"}

\* decoded responses of the login endpoint
LoginBodies ==
    {Body(Nothing, Some("tok1")),
     Body(Nothing, Some("tok2")),
     Body(Nothing, Nothing),
     Body(Some(DetailList(<<MissingEntry("username"), MissingEntry("password")>>)), Nothing),
     Body(Some(DetailList(<<MissingEntry("username")>>)), Some("tok1")),
     Body(Some(DetailList(<<EmptyNameEntry>>)), Nothing),
     Body(Some(DetailList(<<NoLocEntry>>)), Nothing),
     Body(Some(DetailList(<<OtherEntry, NoTypeEntry>>)), Nothing),
     Body(Some(DetailStr("Incorrect username or password")), Nothing)}

\* decoded responses of the jobs listing
JobsBodies ==
    {JobsValue("list", FALSE, <<Job(1), Job(2)>>),
     JobsValue("dict", TRUE, <<Job(1)>>),
     JobsValue("list", FALSE, <<JobNoId, NotAJob, Job(2)>>),
     JobsValue("dict", FALSE, <<>>),
     JobsValue("none", FALSE, <<>>)}

\* decoded responses of the status update
StatusBodies ==
    {Body(Nothing, Nothing),
     Body(Some(DetailList(<<MissingEntry("status")>>)), Nothing),
     Body(Some(DetailStr("Job not found")), Nothing)}

Init ==
    /\ pc = "resolve_login"
    /\ api_spec \in WorkflowDocs
    /\ api_response = NoBody
    /\ Locals

\* one console prompt and the text typed
Prompt(text, value) == [text |-> text, value |-> value]

\* the loop of collect_user_inputs (lines 63-67): one prompt per field, in
\* the order of field_details; vals[i] is what is typed at the i-th prompt
CollectedPayload(field_details, vals) ==
    [i \in 1..Len(field_details) |-> [k |-> field_details[i].k, v |-> vals[i]]]
CollectPrompts(field_details, vals) ==
    [i \in 1..Len(field_details) |->
        Prompt(field_details[i].k \o " (" \o field_details[i].v \o "): ", vals[i])]

\* what ollama.generate does for the guidance prompt (lines 50-55): it returns
\* a text, usable or not, or raises because the service cannot be reached
Generated(text) == [exc |-> "", text |-> text]
GenerateFailed == [exc |-> "ConnectionError", text |-> NoneStr]
GuidanceText == "Please enter the following details."
UnusableText == "}{"
GeneratedTexts == {Generated(GuidanceText), Generated(UnusableText)}
GenerateOutcomes == GeneratedTexts \cup {GenerateFailed}

\* lines 40-56: the guidance message, or the exception of the generate call
generate_user_questions(field_details, outcome) == outcome

\* lines 58-67: the guidance message is generated and printed first (an
\* exception of the generate call propagates), then every field is prompted
collect_user_inputs(field_details, outcome, vals) ==
    LET questions == generate_user_questions(field_details, outcome) IN
    IF questions.exc # ""
    THEN [exc |-> questions.exc, text |-> questions.text,
          payload |-> <<>>, prompts |-> <<>>]
    ELSE [exc |-> "", text |-> questions.text,
          payload |-> CollectedPayload(field_details, vals),
          prompts |-> CollectPrompts(field_details, vals)]

\* SpecCollect: collect_user_inputs applied to every generated field_details
CollectNames == {"username", "password", "status"}
CollectTypes == {"string", "integer"}
CollectFields ==
    {fd \in SeqsUpTo([k : CollectNames, v : CollectTypes], MaxFields) :
        \A i, j \in 1..Len(fd) : fd[i].k = fd[j].k => i = j}

InitCollect ==
    /\ pc = "collect"
    /\ api_spec = [paths |-> Nothing]
    /\ api_response = NoBody
    /\ required_fields \in CollectFields
    /\ exc = ""
    /\ content_type = NoneStr
    /\ method = NoneStr
    /\ required_headers = <<>>
    /\ user_payload = <<>>
    /\ headers = <<>>
    /\ llm_text = NoneStr
    /\ missing_fields = NoValue
    /\ bearer_token = NoneStr
    /\ calls = <<>>
    /\ prompts = <<>>
    /\ jobs_data = NoJobsData
    /\ job_ids = <<>>
    /\ selected_job_id = NoneStr
    /\ status_fields = <<>>
    /\ status_content_type = NoneStr
    /\ status_method = NoneStr
    /\ status_payload = <<>>
    /\ status_response = NoBody
    /\ summaries = <<>>

\* user_payload = collect_user_inputs(required_fields)
CollectCall ==
    /\ pc = "collect"
    /\ \E g \in GenerateOutcomes, vals \in [1..Len(required_fields) -> InputValues] :
        LET r == collect_user_inputs(required_fields, g, vals) IN
        /\ llm_text' = r.text
        /\ user_payload' = r.payload
        /\ prompts' = r.prompts
        /\ exc' = r.exc
        /\ pc' = IF r.exc = "" THEN "collected" ELSE "crashed"
    /\ UNCHANGED <<api_spec, required_fields, content_type, method,
                   required_headers, headers, api_response, missing_fields,
                   bearer_token, calls, jobs_data, job_ids, selected_job_id,
                   status_fields, status_content_type, status_method,
                   status_payload, status_response,
                   summaries>>

NextCollect == CollectCall

SpecCollect == InitCollect /\ [][NextCollect]_vars

\* one logged HTTP call: the request and the decoded response
Call(req, body, jobs) == [req |-> req, body |-> body, jobs |-> jobs]

\* lines 183-191: resolve the login endpoint; print(method.upper()) raises
\* AttributeError when no method was resolved
ResolveLogin ==
    /\ pc = "resolve_login"
    /\ LET r == extract_required_fields(api_spec, LoginEndpoint, NoneStr) IN
        IF r.exc # ""
        THEN /\ Crash(r.exc)
             /\ UNCHANGED <<required_fields, content_type, method, required_headers>>
        ELSE /\ required_fields' = r.fields
             /\ content_type' = r.content_type
             /\ method' = r.method
             /\ required_headers' = extract_required_headers(api_spec, LoginEndpoint, r.method)
             /\ IF r.method = NoneStr
                THEN Crash("AttributeError")
                ELSE pc' = "collect_login" /\ exc' = exc
    /\ UNCHANGED <<api_spec, user_payload, headers, api_response, llm_text,
                   missing_fields, bearer_token, calls, prompts, jobs_data,
                   job_ids, selected_job_id, status_fields, status_content_type,
                   status_method, status_payload, status_response,
                   summaries>>

\* lines 194-201: collect the payload (only if there are required fields)
\* and the required headers
CollectLogin ==
    /\ pc = "collect_login"
    /\ \E g \in GeneratedTexts,
          vals \in [1..Len(required_fields) -> InputValues],
          hvals \in [1..Len(required_headers) -> InputValues] :
        LET r == IF required_fields # <<>>
                 THEN collect_user_inputs(required_fields, g, vals)
                 ELSE [exc |-> "", text |-> NoneStr, payload |-> <<>>, prompts |-> <<>>]
        IN  IF r.exc # ""
            THEN Crash(r.exc) /\ UNCHANGED <<user_payload, headers, prompts>>
            ELSE /\ user_payload' = r.payload
                 /\ headers' = CollectedPayload(required_headers, hvals)
                 /\ prompts' = prompts \o r.prompts
                                       \o CollectPrompts(required_headers, hvals)
                 /\ pc' = "call_login"
                 /\ exc' = exc
    /\ UNCHANGED <<api_spec, required_fields, content_type, method,
                   required_headers, api_response, llm_text, missing_fields,
                   bearer_token, calls, jobs_data, job_ids,
                   selected_job_id, status_fields, status_content_type,
                   status_method, status_payload, status_response,
                   summaries>>

\* line 204: the first call of the login endpoint; call_api writes
\* Content-Type into the dict main passed (line 98) before it looks at the
\* method, so the write is kept when line 118 raises
CallLogin ==
    /\ pc = "call_login"
    /\ LET c == Request(BaseUrl \o LoginEndpoint, user_payload, headers,
                        content_type, method) IN
        IF c.exc # ""
        THEN /\ Crash(c.exc)
             /\ headers' = c.req.headers
             /\ UNCHANGED <<api_response, calls>>
        ELSE \E resp \in LoginBodies :
                /\ calls' = Append(calls, Call(c.req, resp, NoJobsData))
                /\ api_response' = resp
                /\ headers' = c.req.headers
                /\ pc' = "evaluate"
                /\ exc' = exc
    /\ UNCHANGED <<api_spec, required_fields, content_type, method,
                   required_headers, user_payload, llm_text, missing_fields,
                   bearer_token, prompts, jobs_data, job_ids, selected_job_id,
                   status_fields, status_content_type, status_method,
                   status_payload, status_response,
                   summaries>>

\* line 207: does the response indicate missing fields?
Evaluate ==
    /\ pc = "evaluate"
    /\ LET m == MissingFieldCheck(api_response) IN
        CASE m = "yes" -> pc' = "classify_login" /\ exc' = exc
          [] m = "no" -> pc' = "interpret_login" /\ exc' = exc
          [] OTHER -> Crash(m)
    /\ UNCHANGED <<api_spec, required_fields, content_type, method,
                   required_headers, user_payload, headers, api_response,
                   llm_text, missing_fields, bearer_token, calls, prompts,
                   jobs_data, job_ids, selected_job_id, status_fields,
                   status_content_type, status_method, status_payload,
                   status_response,
                   summaries>>

\* lines 209-210: missing_fields = extract_missing_fields_from_response(api_response)
ClassifyLogin ==
    /\ pc = "classify_login"
    /\ \E text \in LlmTexts :
        LET r == extract_missing_fields_from_response(api_response, text) IN
        /\ llm_text' = text
        /\ missing_fields' = r.value
        /\ IF r.exc # "" THEN Crash(r.exc) ELSE pc' = "repair" /\ exc' = exc
    /\ UNCHANGED <<api_spec, required_fields, content_type, method,
                   required_headers, user_payload, headers, api_response,
                   bearer_token, calls, prompts, jobs_data, job_ids,
                   selected_job_id, status_fields, status_content_type,
                   status_method, status_payload, status_response,
                   summaries>>

\* a mutant of MergeFields: the entered values replace the payload
MergeFields_replace(payload, fields, vals) ==
    [i \in 1..Len(fields) |-> [k |-> fields[i], v |-> vals[i]]]

\* user_payload[field] = input(...) for every field, in order
RECURSIVE MergeFields(_, _, _)
MergeFields(payload, fields, vals) ==
    IF fields = <<>> THEN payload
    ELSE MergeFields(DictPut(payload, Head(fields), Head(vals)), Tail(fields), Tail(vals))

\* a mutant of AfterRepair: an empty field set ends the repair loop
AfterRepair_stop(fields) == IF fields = <<>> THEN "interpret_login" ELSE "retry_login"

\* lines 216-219 follow the loop of line 213 unconditionally
AfterRepair(fields) == "retry_login"

\* lines 213-214: prompt for every missing field and merge it into the payload;
\* iterating a value that is no list raises TypeError
Repair ==
    /\ pc = "repair"
    /\ IF missing_fields.t # "list"
       THEN Crash("TypeError") /\ UNCHANGED <<user_payload, prompts>>
       ELSE \E vals \in [1..Len(missing_fields.items) -> InputValues] :
                /\ user_payload' = MergeFields(user_payload, missing_fields.items, vals)
                /\ prompts' = prompts \o
                       [i \in 1..Len(vals) |-> Prompt(missing_fields.items[i] \o ": ", vals[i])]
                /\ pc' = AfterRepair(missing_fields.items)
                /\ exc' = exc
    /\ UNCHANGED <<api_spec, required_fields, content_type, method,
                   required_headers, headers, api_response, llm_text,
                   missing_fields, bearer_token, calls, jobs_data, job_ids,
                   selected_job_id, status_fields, status_content_type,
                   status_method, status_payload, status_response,
                   summaries>>

\* a mutant of AfterRetry: the second response is evaluated again
AfterRetry_loop(resp) == "evaluate"

\* line 219 is followed by line 224: the second response is not evaluated
AfterRetry(resp) == "interpret_login"

\* line 219: the second call of the login endpoint
RetryLogin ==
    /\ pc = "retry_login"
    /\ LET c == Request(BaseUrl \o LoginEndpoint, user_payload, headers,
                        content_type, method) IN
        IF c.exc # ""
        THEN /\ Crash(c.exc)
             /\ headers' = c.req.headers
             /\ UNCHANGED <<api_response, calls>>
        ELSE \E resp \in LoginBodies :
                /\ calls' = Append(calls, Call(c.req, resp, NoJobsData))
                /\ api_response' = resp
                /\ headers' = c.req.headers
                /\ pc' = AfterRetry(resp)
                /\ exc' = exc
    /\ UNCHANGED <<api_spec, required_fields, content_type, method,
                   required_headers, user_payload, llm_text, missing_fields,
                   bearer_token, prompts, jobs_data, job_ids, selected_job_id,
                   status_fields, status_content_type, status_method,
                   status_payload, status_response,
                   summaries>>

\* a mutant of AfterLogin: the jobs stage runs without a token
AfterLogin_always(body) == "list_jobs"

\* line 229: if "access_token" in api_response ... else (line 311)
AfterLogin(body) == IF IsSome(body.access_token) THEN "list_jobs" ELSE "abort"

\* what ollama.generate returns for a summary prompt (lines 125-129)
SummaryOk == "The request succeeded."
SummaryFailure == "The request failed; stop here."
SummaryTexts == {SummaryOk, SummaryFailure}
SummaryOutcomes == {Generated(t) : t \in SummaryTexts}

\* lines 122-129: the summary of a response, or the exception of the call
interpret_response_with_llm(response_data, outcome) == outcome

\* a mutant of AfterSummary: a summary that reports a failure ends the run
AfterSummary_gate(summary, target) ==
    IF summary = SummaryFailure THEN "abort" ELSE target

\* lines 224-226, 303-304 and 309-310: the summary is printed; the statement
\* that follows does not read it
AfterSummary(summary, target) == target

\* lines 224-231: summarize the login response, then bind the bearer token
InterpretLogin ==
    /\ pc = "interpret_login"
    /\ \E o \in SummaryOutcomes :
        LET r == interpret_response_with_llm(api_response, o) IN
        IF r.exc # ""
        THEN Crash(r.exc) /\ UNCHANGED <<bearer_token, summaries>>
        ELSE /\ summaries' = Append(summaries, r.text)
             /\ pc' = AfterSummary(r.text, AfterLogin(api_response))
             /\ bearer_token' = IF IsSome(api_response.access_token)
                                THEN Val(api_response.access_token) ELSE bearer_token
             /\ exc' = exc
    /\ UNCHANGED <<api_spec, required_fields, content_type, method,
                   required_headers, user_payload, headers, api_response,
                   llm_text, missing_fields, calls, prompts, jobs_data, job_ids,
                   selected_job_id, status_fields, status_content_type,
                   status_method, status_payload, status_response>>

\* a mutant of AuthHeaders: the token is sent without the Bearer scheme
AuthHeaders_bare(token) ==
    <<[k |-> "accept", v |-> JsonType], [k |-> "Authorization", v |-> token]>>

\* lines 239-242 and 285-287: accept and Authorization: Bearer <token>
AuthHeaders(token) ==
    <<[k |-> "accept", v |-> JsonType],
      [k |-> "Authorization", v |-> "Bearer " \o token]>>

\* a mutant of AfterJobs: the status stage runs without a listed job
AfterJobs_always(ids) == "select_job"

\* line 257: if job_ids ... else (line 305) "No job IDs found"
AfterJobs(ids) == IF ids # <<>> THEN "select_job" ELSE "interpret_jobs"

\* lines 234-257: resolve the method of /jobs (default get), call it with the
\* bearer token and extract the job ids
ListJobs ==
    /\ pc = "list_jobs"
    /\ LET r == extract_required_fields(api_spec, JobsEndpoint, NoneStr) IN
        IF r.exc # ""
        THEN Crash(r.exc) /\ UNCHANGED <<calls, jobs_data, job_ids>>
        ELSE LET jobs_method == IF r.method \in {NoneStr, ""} THEN "get" ELSE r.method
                 req == Req(Upper(jobs_method), BaseUrl \o JobsEndpoint, "none", "",
                            <<>>, AuthHeaders(bearer_token))
             IN  \E data \in JobsBodies :
                    /\ calls' = Append(calls, Call(req, NoBody, data))
                    /\ jobs_data' = data
                    /\ job_ids' = extract_job_ids(data)
                    /\ pc' = AfterJobs(extract_job_ids(data))
                    /\ exc' = exc
    /\ UNCHANGED <<api_spec, required_fields, content_type, method,
                   required_headers, user_payload, headers, api_response,
                   llm_text, missing_fields, bearer_token, prompts,
                   selected_job_id, status_fields, status_content_type,
                   status_method, status_payload, status_response,
                   summaries>>

StatusEndpoint(id) == "/jobs/" \o id \o "/status"

\* a mutant of StatusDescriptor: the default method is post
StatusDescriptor_post(r) ==
    IF r.fields = <<>>
    THEN [fields |-> <<[k |-> "status", v |-> "string"]>>,
          content_type |-> JsonType, method |-> "post"]
    ELSE [fields |-> r.fields, content_type |-> r.content_type, method |-> r.method]

\* lines 271-275: if not status_fields, the defaults replace all three values
StatusDescriptor(r) ==
    IF r.fields = <<>>
    THEN [fields |-> <<[k |-> "status", v |-> "string"]>>,
          content_type |-> JsonType, method |-> "put"]
    ELSE [fields |-> r.fields, content_type |-> r.content_type, method |-> r.method]

\* lines 263-279: prompt for a job id, resolve its status endpoint, fall back
\* to {"status": "string"}, application/json, put when no field is resolved
SelectJob ==
    /\ pc = "select_job"
    /\ \E id \in JobIdInputs :
        LET r == extract_required_fields(api_spec, StatusEndpoint(id), NoneStr) IN
        /\ selected_job_id' = id
        /\ prompts' = Append(prompts,
               Prompt("\nEnter the ID of the job you want to update: ", id))
        /\ IF r.exc # ""
           THEN /\ Crash(r.exc)
                /\ UNCHANGED <<status_fields, status_content_type, status_method>>
           ELSE /\ status_fields' = StatusDescriptor(r).fields
                /\ status_content_type' = StatusDescriptor(r).content_type
                /\ status_method' = StatusDescriptor(r).method
                /\ pc' = "collect_status"
                /\ exc' = exc
    /\ UNCHANGED <<api_spec, required_fields, content_type, method,
                   required_headers, user_payload, headers, api_response,
                   llm_text, missing_fields, bearer_token, calls, jobs_data,
                   job_ids, status_payload, status_response,
                   summaries>>

\* line 282: status_payload = collect_user_inputs(status_fields)
CollectStatus ==
    /\ pc = "collect_status"
    /\ \E g \in GeneratedTexts, vals \in [1..Len(status_fields) -> InputValues] :
        LET r == collect_user_inputs(status_fields, g, vals) IN
        IF r.exc # ""
        THEN Crash(r.exc) /\ UNCHANGED <<status_payload, prompts>>
        ELSE /\ status_payload' = r.payload
             /\ prompts' = prompts \o r.prompts
             /\ pc' = "call_status"
             /\ exc' = exc
    /\ UNCHANGED <<api_spec, required_fields, content_type, method,
                   required_headers, user_payload, headers, api_response,
                   llm_text, missing_fields, bearer_token, calls, jobs_data,
                   job_ids, selected_job_id, status_fields,
                   status_content_type, status_method, status_response,
                   summaries>>

\* a mutant of AfterStatusCall: a missing-field response is sent again
AfterStatusCall_retry(resp) ==
    IF MissingFieldCheck(resp) = "yes" THEN "call_status" ELSE "interpret_status"

\* line 300 is followed by line 303: the status response is not evaluated
AfterStatusCall(resp) == "interpret_status"

\* lines 285-300: the status update call
CallStatus ==
    /\ pc = "call_status"
    /\ LET status_headers == Append(AuthHeaders(bearer_token),
                                    [k |-> "Content-Type", v |-> status_content_type])
           c == Request(BaseUrl \o StatusEndpoint(selected_job_id), status_payload,
                        status_headers, status_content_type, status_method)
       IN  IF c.exc # ""
           THEN Crash(c.exc) /\ UNCHANGED <<calls, status_response>>
           ELSE \E resp \in StatusBodies :
                    /\ calls' = Append(calls, Call(c.req, resp, NoJobsData))
                    /\ status_response' = resp
                    /\ pc' = AfterStatusCall(resp)
                    /\ exc' = exc
    /\ UNCHANGED <<api_spec, required_fields, content_type, method,
                   required_headers, user_payload, headers, api_response,
                   llm_text, missing_fields, bearer_token, prompts, jobs_data,
                   job_ids, selected_job_id, status_fields,
                   status_content_type, status_method, status_payload,
                   summaries>>

\* lines 303-304: summarize the status response
InterpretStatus ==
    /\ pc = "interpret_status"
    /\ \E o \in SummaryOutcomes :
        LET r == interpret_response_with_llm(status_response, o) IN
        IF r.exc # ""
        THEN Crash(r.exc) /\ UNCHANGED summaries
        ELSE /\ summaries' = Append(summaries, r.text)
             /\ pc' = AfterSummary(r.text, "interpret_jobs")
             /\ exc' = exc
    /\ UNCHANGED <<api_spec, required_fields, content_type, method,
                   required_headers, user_payload, headers, api_response,
                   llm_text, missing_fields, bearer_token, calls, prompts,
                   jobs_data, job_ids, selected_job_id, status_fields,
                   status_content_type, status_method, status_payload,
                   status_response>>

\* lines 305-310: report "no jobs" if there were none, summarize the jobs
\* response; main returns
InterpretJobs ==
    /\ pc = "interpret_jobs"
    /\ \E o \in SummaryOutcomes :
        LET r == interpret_response_with_llm(jobs_data, o) IN
        IF r.exc # ""
        THEN Crash(r.exc) /\ UNCHANGED summaries
        ELSE /\ summaries' = Append(summaries, r.text)
             /\ pc' = AfterSummary(r.text, "done")
             /\ exc' = exc
    /\ UNCHANGED <<api_spec, required_fields, content_type, method,
                   required_headers, user_payload, headers, api_response,
                   llm_text, missing_fields, bearer_token, calls, prompts,
                   jobs_data, job_ids, selected_job_id, status_fields,
                   status_content_type, status_method, status_payload,
                   status_response>>

Next ==
    \/ ResolveLogin
    \/ CollectLogin
    \/ CallLogin
    \/ Evaluate
    \/ ClassifyLogin
    \/ Repair
    \/ RetryLogin
    \/ InterpretLogin
    \/ ListJobs
    \/ SelectJob
    \/ CollectStatus
    \/ CallStatus
    \/ InterpretStatus
    \/ InterpretJobs

Spec == Init /\ [][Next]_vars

---------------------------------------------------------------------------
(* Properties of the workflow *)

LoginUrl == BaseUrl \o LoginEndpoint
JobsUrl == BaseUrl \o JobsEndpoint
LoginCalls == {i \in 1..Len(calls) : calls[i].req.url = LoginUrl}
JobsCalls == {i \in 1..Len(calls) : calls[i].req.url = JobsUrl}
StatusCalls == {i \in 1..Len(calls) : calls[i].req.url \notin {LoginUrl, JobsUrl}}

\* the body has a detail list with at least one entry whose type contains
\* "missing"
HasMissingEntry(body) ==
    /\ IsSome(body.detail)
    /\ Val(body.detail).t = "list"
    /\ \E i \in 1..Len(Val(body.detail).items) :
          /\ IsSome(Val(body.detail).items[i].type)
          /\ ContainsMissing(Val(Val(body.detail).items[i].type))

\* prompts of the repair step, f"{field}: "
RepairPrompts == {i \in 1..Len(prompts) : prompts[i].text \in {"username: ", "password: "}}

\* C1: the login endpoint is dispatched at most twice and a second call
\* happens only after a missing-field response to the first; after the second
\* call the workflow never evaluates, classifies, repairs or retries again:
\* the second response is the final login response, also when it is again a
\* missing-field failure. The jobs listing and the status update are each
\* dispatched at most once.
C1_RepairAtMostOnce ==
    /\ Cardinality(LoginCalls) <= 2
    /\ Cardinality(JobsCalls) <= 1
    /\ Cardinality(StatusCalls) <= 1
    /\ Cardinality(LoginCalls) = 2 =>
          /\ LoginCalls = {1, 2}
          /\ HasMissingEntry(calls[1].body)
          /\ pc \notin {"evaluate", "classify_login", "repair", "retry_login"}
          /\ api_response = calls[2].body

C1_Witness ==
    /\ pc = "abort"
    /\ Cardinality(LoginCalls) = 2
    /\ HasMissingEntry(api_response)

\* C2: a jobs-listing or status-update call is dispatched only when the final
\* login response contains access_token; once the final login response is
\* known to lack it the workflow is in Abort and only login calls were made.
C2_NoTokenNoCalls ==
    /\ (JobsCalls \cup StatusCalls) # {} => IsSome(api_response.access_token)
    /\ (/\ pc \notin {"resolve_login", "collect_login", "call_login", "evaluate",
                      "classify_login", "repair", "retry_login", "interpret_login",
                      "crashed"}
        /\ ~IsSome(api_response.access_token))
          => pc = "abort" /\ JobsCalls = {} /\ StatusCalls = {}

C2_Witness ==
    /\ pc = "abort"
    /\ Cardinality(LoginCalls) = 2
    /\ ~IsSome(api_response.access_token)
    /\ IsSome(calls[1].body.access_token)

\* C3: the bearer token changes only once, in the step that reads
\* access_token from the final login response, and takes that value; every
\* jobs-listing and status-update call carries Authorization: Bearer <token>.
C3_TokenState ==
    /\ bearer_token # NoneStr =>
          /\ IsSome(api_response.access_token)
          /\ bearer_token = Val(api_response.access_token)
          /\ api_response = calls[Cardinality(LoginCalls)].body
    /\ \A i \in JobsCalls \cup StatusCalls :
          /\ bearer_token # NoneStr
          /\ DictHas(calls[i].req.headers, "Authorization")
          /\ DictGet(calls[i].req.headers, "Authorization") = "Bearer " \o bearer_token

C3_TokenStep ==
    bearer_token' # bearer_token =>
        /\ bearer_token = NoneStr
        /\ pc = "interpret_login"
        /\ api_response' = api_response

\* C3: in every state the bound token is the access_token of the final login
\* response and every call after login carries Authorization: Bearer <token>,
\* and every step that changes the token is the one binding it for the first
\* time.
C3_BearerToken == [](C3_TokenState) /\ [][C3_TokenStep]_vars

C3_Witness ==
    /\ pc = "done"
    /\ Cardinality(StatusCalls) = 1
    /\ Cardinality(LoginCalls) = 2
    /\ calls[1].body.access_token = Some("tok1")
    /\ bearer_token = "tok2"

\* C4 as claimed: once a status-update response with a "missing"-typed
\* detail entry has been received and the stage has moved on to reporting,
\* the status-update call has been dispatched a second time.
C4_StatusRepairClaimed ==
    (/\ pc \in {"interpret_status", "interpret_jobs", "done"}
     /\ StatusCalls # {}
     /\ HasMissingEntry(status_response))
        => Cardinality(StatusCalls) = 2

\* C4 (amended): the status-update stage runs no repair loop. The status
\* call is dispatched at most once, it is the last call of the run, its
\* request carries the payload collected before it, its response is the one
\* reported, and nothing is prompted for after the status fields were
\* collected, also when the response has a "missing"-typed detail entry.
C4_StatusCalledOnce ==
    /\ Cardinality(StatusCalls) <= 1
    /\ \A i \in StatusCalls :
          /\ i = Len(calls)
          /\ pc \in {"interpret_status", "interpret_jobs", "done"}
          /\ calls[i].req.payload = status_payload
          /\ calls[i].body = status_response
          /\ prompts[Len(prompts)].text =
                 status_fields[Len(status_fields)].k \o " ("
                     \o status_fields[Len(status_fields)].v \o "): "

C4_Witness ==
    /\ pc = "done"
    /\ Cardinality(StatusCalls) = 1
    /\ HasMissingEntry(status_response)

\* C5 as claimed: Evaluate moves to Repair exactly when the login response
\* has a detail list with at least one "missing"-typed entry, moves to Done
\* for every other body, and never ends the run with an uncaught error.
C5_EvaluateStep ==
    pc = "evaluate" /\ pc' # pc =>
        /\ pc' \in {"classify_login", "interpret_login"}
        /\ pc' = "classify_login" <=> HasMissingEntry(api_response)

\* C5 as claimed, of every step the workflow takes from Evaluate.
C5_EvaluateTotal == [][C5_EvaluateStep]_vars

\* C6 as claimed: when classification yields an empty field set the login
\* endpoint is not dispatched again.
C6_EmptySetEndsLoopClaimed ==
    missing_fields = ListValue(<<>>) => Cardinality(LoginCalls) <= 1

\* C6 (amended): when classification yields an empty field set, no
\* replacement value is prompted for and the login endpoint is dispatched a
\* second time with the request of the first call unchanged; the second
\* response is the final login response.
C6_EmptySetRedispatches ==
    missing_fields = ListValue(<<>>) =>
        /\ RepairPrompts = {}
        /\ pc \notin {"repair", "retry_login"} =>
              /\ Cardinality(LoginCalls) = 2
              /\ calls[2].req = calls[1].req
              /\ api_response = calls[2].body

C6_Witness ==
    /\ missing_fields = ListValue(<<>>)
    /\ llm_text = TextProse
    /\ pc = "interpret_login"
    /\ Cardinality(LoginCalls) = 2

---------------------------------------------------------------------------
(* Properties of extract_missing_fields_from_response (SpecClassify) *)

\* the detail value is a list whose entries all have a type and a loc with a
\* non-empty last segment
WellFormedDetail(body) ==
    /\ IsSome(body.detail)
    /\ Val(body.detail).t = "list"
    /\ \A i \in 1..Len(Val(body.detail).items) :
          LET e == Val(body.detail).items[i] IN
          /\ IsSome(e.type)
          /\ IsSome(e.loc)
          /\ Val(e.loc) # <<>>
          /\ Val(e.loc)[Len(Val(e.loc))] # ""

IsMissingEntry(e) == IsSome(e.type) /\ ContainsMissing(Val(e.type))

\* the last loc segment of each "missing"-typed entry, in order
MissingNames(body) ==
    LET hits == SelectSeq(Val(body.detail).items, IsMissingEntry)
    IN  [i \in 1..Len(hits) |-> Val(hits[i].loc)[Len(Val(hits[i].loc))]]

\* texts that denote a literal list of field names
ListTexts == {TextOneName, TextTwoNames, TextEmptyList}
\* texts whose evaluation raises SyntaxError or NameError
UnparsableTexts == {TextProse, TextBareName}

\* C7 as claimed: for a well-formed detail list classify returns the last loc
\* segment of each "missing"-typed entry, in order, whatever the text
\* generator returned.
C7_StructuredFirstClaimed ==
    pc \in {"classified", "crashed"} /\ WellFormedDetail(api_response) =>
        /\ pc = "classified"
        /\ missing_fields = ListValue(MissingNames(api_response))

\* C7 (amended): for a well-formed detail list, classify returns the value
\* the text generator's output evaluates to whenever it evaluates (a list of
\* names, or any other value); only when evaluating it raises SyntaxError or
\* NameError does classify return the last loc segment of each
\* "missing"-typed entry, in order; any other exception of the evaluation
\* propagates.
C7_TextFirst ==
    pc \in {"classified", "crashed"} /\ WellFormedDetail(api_response) =>
        /\ llm_text = TextOneName =>
              pc = "classified" /\ missing_fields = ListValue(<<"username">>)
        /\ llm_text = TextTwoNames =>
              pc = "classified" /\ missing_fields = ListValue(<<"password", "username">>)
        /\ llm_text = TextEmptyList =>
              pc = "classified" /\ missing_fields = ListValue(<<>>)
        /\ llm_text = TextNumber =>
              pc = "classified" /\ missing_fields = IntValue(42)
        /\ llm_text = TextNone =>
              pc = "classified" /\ missing_fields = NoValue
        /\ llm_text \in UnparsableTexts =>
              pc = "classified" /\ missing_fields = ListValue(MissingNames(api_response))
        /\ llm_text = TextDivision =>
              pc = "crashed" /\ exc = "ZeroDivisionError"

C7_Witness ==
    /\ pc = "classified"
    /\ api_response = Body(Some(DetailList(<<MissingEntry("username"), OtherEntry>>)), Nothing)
    /\ llm_text = TextTwoNames
    /\ missing_fields = ListValue(<<"password", "username">>)

\* C8 as claimed: with no detail key and a text that is no literal list of
\* field names, classify returns the empty set without raising; and whatever
\* classify returns is a sequence the repair step can iterate over.
C8_FallbackEmptyClaimed ==
    /\ pc \in {"classified", "crashed"}
          /\ ~IsSome(api_response.detail) /\ llm_text \notin ListTexts =>
             pc = "classified" /\ missing_fields = ListValue(<<>>)
    /\ pc = "classified" => missing_fields.t = "list"

---------------------------------------------------------------------------
(* Properties of extract_required_fields (SpecResolve) *)

LoginItem == DictGet(Val(api_spec.paths), LoginEndpoint)
HasLoginPath == IsSome(api_spec.paths) /\ DictHas(Val(api_spec.paths), LoginEndpoint)
Recognized(key) == Lower(key) \in HttpMethods

\* the login path declares at least one operation
DeclaresOperation ==
    HasLoginPath /\ \E i \in 1..Len(LoginItem) : Recognized(LoginItem[i].k)

\* C9: when the endpoint declares an operation and resolve returns, the
\* returned method is the first key of the path item, in declaration order,
\* whose lower-case form is a recognized HTTP method token, and
\* requiredFields is non-empty only if contentType is present.
C9_FirstRecognizedMethod ==
    pc = "resolved" /\ DeclaresOperation =>
        /\ \E i \in 1..Len(LoginItem) :
              /\ method = LoginItem[i].k
              /\ Recognized(LoginItem[i].k)
              /\ \A j \in 1..(i - 1) : ~Recognized(LoginItem[j].k)
        /\ required_fields # <<>> => content_type # NoneStr

C9_Witness ==
    /\ pc = "resolved"
    /\ HasLoginPath
    /\ Len(LoginItem) = 2
    /\ LoginItem[1].k = "summary"
    /\ LoginItem[2].k = "GET"
    /\ method = "GET"
    /\ required_fields # <<>>
    /\ content_type = FormType

\* the cases C10 lists: no path, no operation under the path, or a first
\* operation whose request body has no content map, an empty one, no schema,
\* or a required name without a typed property
FirstOp == LoginItem[CHOOSE i \in 1..Len(LoginItem) :
                        /\ Recognized(LoginItem[i].k)
                        /\ \A j \in 1..(i - 1) : ~Recognized(LoginItem[j].k)].v
DegenerateBody(rb) ==
    \/ ~IsSome(rb.content)
    \/ Val(rb.content) = <<>>
    \/ LET media == Val(rb.content)[1].v IN
       \/ ~IsSome(media.schema)
       \/ LET schema == Val(media.schema) IN
          /\ IsSome(schema.required)
          /\ \E i \in 1..Len(Val(schema.required)) :
                \/ ~IsSome(schema.properties)
                \/ ~DictHas(Val(schema.properties), Val(schema.required)[i])
                \/ ~IsSome(DictGet(Val(schema.properties), Val(schema.required)[i]).type)
DegenerateDoc ==
    \/ ~DeclaresOperation
    \/ IsSome(FirstOp.requestBody) /\ DegenerateBody(Val(FirstOp.requestBody))

\* C10 as claimed: resolve never raises, and for a degenerate document it
\* returns empty requiredFields and an absent contentType.
C10_ResolveNeverRaisesClaimed ==
    /\ pc # "crashed"
    /\ pc = "resolved" /\ DegenerateDoc =>
          required_fields = <<>> /\ content_type = NoneStr

---------------------------------------------------------------------------
(* Properties of the login stage (Spec) *)

\* C11 as claimed: a resolution failure never propagates into the workflow;
\* for a document whose paths map lacks the login endpoint or declares no
\* HTTP operation under it, the step that resolves the login endpoint is
\* followed by the collection of the inputs and the first call, never by an
\* uncaught error.
C11_ResolveStepClaimed ==
    pc = "resolve_login" /\ ~DeclaresOperation /\ pc' # pc =>
        pc' = "collect_login" /\ exc' = ""
\* C11 as claimed, for every step of every run: resolving the login endpoint
\* of a document without it, or without an operation under it, continues
\* with the collection of the inputs.
C11_ResolveContinuesClaimed == [][C11_ResolveStepClaimed]_vars

---------------------------------------------------------------------------
(* Properties of call_api (SpecDispatch) *)

\* C12 as claimed: for every body-carrying method (POST, PUT, DELETE, PATCH)
\* and every present payload, dispatch with the form content type sends the
\* body as the payload's key=value pairs joined by "&" in insertion order,
\* without percent-encoding; with any other content type the payload is sent
\* as a JSON body.
C12_FormBodyClaimed ==
    pc = "dispatched" /\ Lower(method) \in {"post", "put", "delete", "patch"} =>
        LET req == calls[1].req IN
        IF content_type = FormType
        THEN req.kind = "data" /\ req.data = FormEncode(user_payload)
        ELSE req.kind = "json" /\ req.payload = user_payload

---------------------------------------------------------------------------
(* Properties of collect_user_inputs (SpecCollect) *)

\* C13 as claimed: collect prompts the input source once for every field of
\* fieldDetails, in the order given, and returns a payload with exactly those
\* keys, also when the text-generation call for the guidance message fails or
\* returns unusable text.
C13_CollectAlwaysPromptsClaimed ==
    pc \in {"collected", "crashed"} =>
        /\ pc = "collected"
        /\ Len(prompts) = Len(required_fields)
        /\ \A i \in 1..Len(required_fields) :
              prompts[i].text =
                  required_fields[i].k \o " (" \o required_fields[i].v \o "): "
        /\ DictKeys(user_payload) = DictKeys(required_fields)

---------------------------------------------------------------------------
(* Properties of extract_job_ids (SpecJobIds) *)

\* the list the ids are read from: the response itself, or its jobs value
JobItems ==
    IF jobs_data.t = "list" \/ (jobs_data.t = "dict" /\ jobs_data.has_jobs)
    THEN jobs_data.items ELSE <<>>
IsJobObject(job) == job.t = "dict"
\* the ids of the job objects of a list, in order of appearance
IdsOf(items) ==
    LET withId == SelectSeq(items, LAMBDA job : IsJobObject(job) /\ IsSome(job.id))
    IN  [i \in 1..Len(withId) |-> Val(withId[i].id)]
\* the scan ends at a number, boolean or null, and at a string or list that
\* contains "id"
EndsScan(job) ==
    \/ job.t = "int"
    \/ job.t \in {"str", "list"} /\ job.has_id
\* the elements before the first one that ends the scan
BeforeScanEnds(items) ==
    IF \E i \in 1..Len(items) : EndsScan(items[i])
    THEN SubSeq(items, 1, (CHOOSE i \in 1..Len(items) :
                              /\ EndsScan(items[i])
                              /\ \A j \in 1..(i - 1) : ~EndsScan(items[j])) - 1)
    ELSE items

\* C14 as claimed: extraction returns, in order of appearance, the id of
\* every job object of a bare list or of the list under the jobs key, and the
\* empty list for every other response shape, lists or jobs values that
\* contain non-object elements included.
C14_AllIdsOrEmptyClaimed ==
    pc = "extracted" =>
        job_ids = IF \A i \in 1..Len(JobItems) : IsJobObject(JobItems[i])
                  THEN IdsOf(JobItems) ELSE <<>>

\* C14, amended: for a bare list or the list under the jobs key, extraction
\* returns, in order of appearance, the ids of the job objects that come
\* before the first element that ends the scan: a number, boolean or null, or
\* a string or list that contains "id".  That element and everything after
\* it are not read.  Objects without id and strings or lists that do not
\* contain "id" are skipped.  Every other response shape gives the empty
\* list.
C14_IdsBeforeScanEnds ==
    pc = "extracted" => job_ids = IdsOf(BeforeScanEnds(JobItems))

\* the string "video" between two jobs ends the scan after the first id
C14_Witness ==
    /\ pc = "extracted"
    /\ jobs_data = JobsValue("list", FALSE, <<Job(1), JobTitle, Job(2)>>)
    /\ job_ids = <<1>>

---------------------------------------------------------------------------
(* Properties of the jobs and status stages (Spec) *)

JobIdPrompts ==
    {i \in 1..Len(prompts) :
        prompts[i].text = "\nEnter the ID of the job you want to update: "}

\* C15: once the jobs listing has been called and the extraction has yielded
\* no identifier, the run is at its end (the "no jobs" report, then the
\* return): no job id is prompted for and no status update is dispatched; a
\* status update is dispatched only after a jobs listing that yielded at
\* least one identifier.
C15_NoJobsNoStatus ==
    /\ JobsCalls # {} /\ job_ids = <<>> =>
          /\ pc \in {"interpret_jobs", "done"}
          /\ JobIdPrompts = {}
          /\ StatusCalls = {}
    /\ \A i \in StatusCalls :
          /\ job_ids # <<>>
          /\ \E j \in JobsCalls : j < i /\ calls[j].jobs = jobs_data

C15_Witness ==
    /\ pc = "done"
    /\ JobsCalls # {}
    /\ jobs_data = JobsValue("list", FALSE, <<JobNoId, NotAJob, Job(2)>>)
    /\ job_ids = <<>>
    /\ StatusCalls = {}

\* C16: every status update is sent to /jobs/<entered id>/status, with the
\* id exactly as typed at the job-id prompt.  When resolving that endpoint
\* yields no required fields the call is a PUT with a JSON body whose only
\* key is status and content type application/json; when it yields required
\* fields, the resolved method, content type and field names are used.
C16_StatusCallShape ==
    \A i \in StatusCalls :
        LET r == extract_required_fields(api_spec, StatusEndpoint(selected_job_id), NoneStr)
            req == calls[i].req
        IN  /\ \E p \in JobIdPrompts : prompts[p].value = selected_job_id
            /\ req.url = BaseUrl \o "/jobs/" \o selected_job_id \o "/status"
            /\ r.exc = ""
            /\ r.fields = <<>> =>
                  /\ req.verb = "PUT"
                  /\ req.kind = "json"
                  /\ DictKeys(req.payload) = <<"status">>
                  /\ DictGet(req.headers, "Content-Type") = JsonType
            /\ r.fields # <<>> =>
                  /\ req.verb = Upper(r.method)
                  /\ DictKeys(req.payload) = DictKeys(r.fields)
                  /\ DictGet(req.headers, "Content-Type") = r.content_type

\* the id typed (7) is none of the listed ids (1, 2) and has no status path
C16_Witness ==
    /\ pc = "done"
    /\ job_ids = <<1, 2>>
    /\ selected_job_id = "7"
    /\ \E i \in StatusCalls :
          /\ calls[i].req.url = "http://localhost:8000/jobs/7/status"
          /\ calls[i].req.verb = "PUT"
          /\ calls[i].req.payload = <<[k |-> "status", v |-> "a"]>>

---------------------------------------------------------------------------
(* Properties of the summaries (Spec) *)

SummaryPcs == {"interpret_login", "interpret_status", "interpret_jobs"}

\* where a summary step leaves the run, as a function of the responses alone
AfterSummaryOf(at) ==
    CASE at = "interpret_login" ->
            IF IsSome(api_response.access_token) THEN "list_jobs" ELSE "abort"
      [] at = "interpret_status" -> "interpret_jobs"
      [] at = "interpret_jobs" -> "done"

\* every input and result of the run other than the summaries
LowVars ==
    <<exc, api_spec, required_fields, content_type, method, required_headers,
      user_payload, headers, api_response, llm_text, missing_fields, calls,
      prompts, jobs_data, job_ids, selected_job_id, status_fields,
      status_content_type, status_method, status_payload, status_response>>

C17_SummaryStep ==
    /\ pc \in SummaryPcs /\ pc' # pc =>
          /\ \E t \in SummaryTexts : summaries' = Append(summaries, t)
          /\ pc' = AfterSummaryOf(pc)
          /\ bearer_token' = IF pc = "interpret_login" /\ IsSome(api_response.access_token)
                             THEN Val(api_response.access_token) ELSE bearer_token
          /\ LowVars' = LowVars
    /\ pc \notin SummaryPcs => summaries' = summaries

\* C17: the summaries of the login, jobs and status responses never
\* influence control flow.  A step that produces a summary only appends it
\* to the printed summaries: the position and the bearer token it leaves
\* are those the response alone determines, whatever the summary text, and
\* every other variable, the calls log included, is unchanged; no other step
\* touches the summaries.  So two runs with the same document, responses,
\* console inputs and classification texts that differ only in the summary
\* texts take the same steps and dispatch the same HTTP calls.
C17_SummariesDoNotSteer == [][C17_SummaryStep]_vars

\* a run whose login and status summaries report a failure still lists the
\* jobs, updates a status and ends normally
C17_Witness ==
    /\ pc = "done"
    /\ summaries = <<SummaryFailure, SummaryFailure, SummaryOk>>
    /\ JobsCalls # {}
    /\ StatusCalls # {}

---------------------------------------------------------------------------
(* Termination of the workflow (Spec) *)

\* C18 as claimed: when every external call returns, every run terminates
\* normally; a run stops only in the terminal state Done or Abort, never
\* with an uncaught error.
C18_TerminatesNormallyClaimed ==
    /\ pc # "crashed"
    /\ pc \in {"done", "abort"} \/ ENABLED Next

---------------------------------------------------------------------------
(* Properties of the repair step (Spec) *)

\* the value typed at the last repair prompt for the field: the step has
\* appended one prompt per missing field
EnteredFor(field) ==
    LET fields == missing_fields.items
        last == CHOOSE j \in 1..Len(fields) :
                    /\ fields[j] = field
                    /\ \A l \in (j + 1)..Len(fields) : fields[l] # field
    IN  prompts'[Len(prompts) + last].value

C19_RepairStep ==
    pc = "repair" /\ pc' = "retry_login" =>
        LET fields == missing_fields.items
            named(key) == \E j \in 1..Len(fields) : fields[j] = key
        IN  /\ Len(prompts') = Len(prompts) + Len(fields)
            /\ \A i \in 1..Len(user_payload) :
                  ~named(user_payload[i].k) =>
                      /\ DictHas(user_payload', user_payload[i].k)
                      /\ DictGet(user_payload', user_payload[i].k) = user_payload[i].v
            /\ \A i \in 1..Len(user_payload') :
                  ~named(user_payload'[i].k) => DictHas(user_payload, user_payload'[i].k)
            /\ \A j \in 1..Len(fields) :
                  /\ DictHas(user_payload', fields[j])
                  /\ DictGet(user_payload', fields[j]) = EnteredFor(fields[j])
            /\ UNCHANGED <<content_type, method>>

C19_SecondCall ==
    Cardinality(LoginCalls) = 2 =>
        /\ calls[2].req.url = calls[1].req.url
        /\ calls[2].req.verb = calls[1].req.verb
        /\ calls[2].req.kind = calls[1].req.kind
        /\ \A i \in 1..2 :
              DictHas(calls[i].req.headers, "Content-Type") =>
                  DictGet(calls[i].req.headers, "Content-Type") = content_type

\* C19: the repair step changes only the payload entries named in the
\* missing-field set: every other key keeps the value it had before, no other
\* key appears, each missing field holds the value entered for it at the
\* repair prompt (overwriting an old one), and the second call uses the same
\* URL, method and content type as the first.
C19_RepairFrame == [](C19_SecondCall) /\ [][C19_RepairStep]_vars

\* username is re-entered and overwritten, password keeps its value
C19_Witness ==
    /\ pc = "interpret_login"
    /\ Cardinality(LoginCalls) = 2
    /\ missing_fields = ListValue(<<"username">>)
    /\ calls[1].req.data = "username=a&password=a"
    /\ calls[2].req.data = "username=b&password=a"
    /\ user_payload = <<[k |-> "username", v |-> "b"], [k |-> "password", v |-> "a"]>>

---------------------------------------------------------------------------
(* Resolved methods and the dispatcher (Spec) *)

\* C20 as claimed: every method that resolve can return for an endpoint (the
\* first declared key among get, post, put, delete, patch, options, head, in
\* any letter case) is accepted by dispatch: no call with a resolved method
\* fails with the unsupported-method error.
C20_DispatchStepClaimed ==
    pc \in {"call_login", "retry_login", "call_status"} =>
        ~(pc' = "crashed" /\ exc' = "ValueError")
\* C20 as claimed, for every step of every run: no dispatch with a resolved
\* method raises the unsupported-method error.
C20_ResolvedMethodAcceptedClaimed == [][C20_DispatchStepClaimed]_vars

=============================================================================
